---- MODULE Spec2Model ----
(***************************************************************************)
(* A model of src/src/index.ts: the reactive Store, the structural merge   *)
(* d, the History Queue of createHistory, the search codec and the Router. *)
(*                                                                         *)
(* JavaScript values are records tagged by t.  A container (array, plain   *)
(* object, class instance) carries an id: two containers are the same      *)
(* reference exactly when their ids are equal.  A string is a sequence of  *)
(* one-character strings, so that the codec can be modelled character by   *)
(* character.  An object keeps its keys in insertion order in k and its    *)
(* entries in the function f.                                              *)
(***************************************************************************)
EXTENDS Integers, Sequences, FiniteSets, TLC

VARIABLES
  mPhase, mPrev, mNext, mResult,     \* structural merge: d(previous, next)
  cPhase, cObj, cStr, cBack,         \* search codec: object, query string, object
  store,      \* a Store: its state, batching, queue and listeners
  sStack,     \* the calls of the Store and of its callbacks that are running
  sLog,       \* what the Store did so far: hook and listener invocations
  sCall,      \* the last call made on the Store, and its state at the call
  hist,       \* a History Queue: currentLocation, unsub, listeners and queue
  hHost,      \* the host under it: its entries, the current one, pending moves
  hStack,     \* the calls of the History Queue and of its listeners in progress
  hLog,       \* the calls made on the History Queue, on the host and on listeners
  hCalls,     \* how many calls and host moves the History Queue has seen
  router,     \* a Router: its options, history, __store and state
  window,     \* the browser: location.pathname, location.search, history.state
  rLog,       \* the host calls of the Router and what its subscribers were given
  rCall,      \* the last call made on the Router, and its state at the call
  rNext       \* the stamp of the next objects, ids and keys that are created

mergeVars == <<mPhase, mPrev, mNext, mResult>>
codecVars == <<cPhase, cObj, cStr, cBack>>
storeVars == <<store, sStack, sLog, sCall>>
histVars == <<hist, hHost, hStack, hLog, hCalls>>
routerVars == <<router, window, rLog, rCall, rNext>>
vars == <<mergeVars, codecVars, storeVars, histVars, routerVars>>
notMerge == <<codecVars, storeVars, histVars, routerVars>>
notCodec == <<mergeVars, storeVars, histVars, routerVars>>
notStore == <<mergeVars, codecVars, histVars, routerVars>>
notHist == <<mergeVars, codecVars, storeVars, routerVars>>
notRouter == <<mergeVars, codecVars, storeVars, histVars>>

(***************************************************************************)
(* Bounds of the model.                                                    *)
(***************************************************************************)
MaxNum == 2        \* numbers are 0..MaxNum
MaxArrLen == 2     \* arrays have at most MaxArrLen elements
MaxRef == 2        \* the states a Store is given are the objects 0..MaxRef
MaxCalls == 3      \* at most MaxCalls calls of setState and batch and errors of listeners
MaxHistCalls == 3  \* at most MaxHistCalls calls of a History Queue and host moves
MaxRouterCalls == 2  \* a built Router sees at most MaxRouterCalls calls and host moves

(***************************************************************************)
(* JavaScript values.                                                      *)
(***************************************************************************)
Undef == [t |-> "undef"]
Null == [t |-> "null"]
Num(n) == [t |-> "num", n |-> n]
Str(s) == [t |-> "str", s |-> s]
Bool(b) == [t |-> "bool", b |-> b]
Arr(id, e) == [t |-> "arr", id |-> id, e |-> e]
Obj(id, k, f) == [t |-> "obj", id |-> id, k |-> k, f |-> f]
Inst(id) == [t |-> "inst", id |-> id]     \* an instance of a class (Date, Map, ...)

(***************************************************************************)
(* Each part of the program is checked by a specification of its own; the  *)
(* variables of the other parts then stay idle.                            *)
(***************************************************************************)
MergeIdle ==
  /\ mPhase = "idle"
  /\ mPrev = Undef
  /\ mNext = Undef
  /\ mResult = Undef

CodecIdle ==
  /\ cPhase = "idle"
  /\ cObj = Undef
  /\ cStr = <<>>
  /\ cBack = Undef

StoreIdle ==
  /\ store = [state |-> [id |-> 0], batching |-> FALSE, queue |-> <<>>, listeners |-> <<>>]
  /\ sStack = <<>>
  /\ sLog = <<>>
  /\ sCall = [n |-> 0, fn |-> "none", arg |-> 0, on |-> 0]

HistIdle ==
  /\ hist = [location |-> "", attached |-> FALSE, listeners |-> <<>>, queue |-> <<>>]
  /\ hHost = [entries |-> <<"">>, at |-> 1, pending |-> 0]
  /\ hStack = <<>>
  /\ hLog = <<>>
  /\ hCalls = 0

RouterIdle ==
  /\ router = [built |-> FALSE]
  /\ window = [pathname |-> <<>>, search |-> <<>>, state |-> [k |-> "null"]]
  /\ rLog = <<>>
  /\ rCall = [n |-> 0, fn |-> "none"]
  /\ rNext = 0

Range(s) == {s[i] : i \in 1..Len(s)}
IndexOf(s, x) == CHOOSE i \in 1..Len(s) : s[i] = x
IsContainer(v) == v.t \in {"arr", "obj", "inst"}

\* e === t: identity for containers, value and type for primitives
RefEq(a, b) ==
  IF IsContainer(a) /\ IsContainer(b) THEN a.id = b.id
  ELSE IF IsContainer(a) \/ IsContainer(b) THEN FALSE
  ELSE a = b

\* e[u] on an array (u counted from 1) and on an object: undefined when absent
ArrGet(e, i) == IF e.t = "arr" /\ i \in 1..Len(e.e) THEN e.e[i] ELSE Undef
ObjGet(e, u) == IF e.t = "obj" /\ u \in DOMAIN e.f THEN e.f[u] ELSE Undef

\* deep (structural) equality: same shape, same keys, same primitives; key
\* order and identity do not count
RECURSIVE DeepEq(_, _)
DeepEq(a, b) ==
  IF a.t # b.t THEN FALSE
  ELSE IF a.t = "arr" THEN
    /\ Len(a.e) = Len(b.e)
    /\ \A i \in 1..Len(a.e) : DeepEq(a.e[i], b.e[i])
  ELSE IF a.t = "obj" THEN
    /\ DOMAIN a.f = DOMAIN b.f
    /\ \A u \in DOMAIN a.f : DeepEq(a.f[u], b.f[u])
  ELSE IF a.t = "inst" THEN a.id = b.id
  ELSE a = b

\* the value v built anew: every container of it gets the id <<stamp, path>>
RECURSIVE Fresh(_, _)
Fresh(v, id) ==
  IF v.t = "arr" THEN Arr(id, [i \in 1..Len(v.e) |-> Fresh(v.e[i], id \o <<i>>)])
  ELSE IF v.t = "obj" THEN
    Obj(id, v.k, [u \in DOMAIN v.f |-> Fresh(v.f[u], id \o <<IndexOf(v.k, u)>>)])
  ELSE IF v.t = "inst" THEN Inst(id)
  ELSE v

\* the identities of the containers of v
RECURSIVE Ids(_)
Ids(v) ==
  IF v.t = "arr" THEN {v.id} \cup UNION {Ids(v.e[i]) : i \in 1..Len(v.e)}
  ELSE IF v.t = "obj" THEN {v.id} \cup UNION {Ids(v.f[u]) : u \in DOMAIN v.f}
  ELSE IF v.t = "inst" THEN {v.id}
  ELSE {}

\* v holds undefined somewhere
RECURSIVE HasUndef(_)
HasUndef(v) ==
  IF v.t = "arr" THEN \E i \in 1..Len(v.e) : HasUndef(v.e[i])
  ELSE IF v.t = "obj" THEN \E u \in DOMAIN v.f : HasUndef(v.f[u])
  ELSE v.t = "undef"

(***************************************************************************)
(* Structural merge: T, R and d.                                           *)
(***************************************************************************)
\* Object.prototype.toString.call(e) === "[object Object]"
T(e) == e.t \in {"obj", "inst"}

\* a plain object: no constructor, or one whose prototype owns isPrototypeOf
R(e) == T(e) /\ e.t = "obj"

\* the mutant of d that always returns the new container
RECURSIVE dAlwaysNew(_, _, _)
dAlwaysNew(e, t, id) ==
  IF RefEq(e, t) THEN e
  ELSE IF e.t = "arr" /\ t.t = "arr" THEN
    Arr(id, [i \in 1..Len(t.e) |-> dAlwaysNew(ArrGet(e, i), t.e[i], id \o <<i>>)])
  ELSE IF R(e) /\ R(t) THEN
    Obj(id, t.k, [u \in DOMAIN t.f |->
                    dAlwaysNew(ObjGet(e, u), t.f[u], id \o <<IndexOf(t.k, u)>>)])
  ELSE t

\* d(e, t): id is the identity of the container c that the call allocates
RECURSIVE d(_, _, _)
d(e, t, id) ==
  IF RefEq(e, t) THEN e
  ELSE IF e.t = "arr" /\ t.t = "arr" THEN
    LET o == Len(e.e)
        s == Len(t.e)
        c == [i \in 1..s |-> d(ArrGet(e, i), t.e[i], id \o <<i>>)]
        h == Cardinality({i \in 1..s : RefEq(c[i], ArrGet(e, i))})
    IN  IF o = s /\ h = o THEN e ELSE Arr(id, c)
  ELSE IF R(e) /\ R(t) THEN
    LET o == Len(e.k)
        a == t.k
        s == Len(a)
        c == [u \in Range(a) |-> d(ObjGet(e, u), t.f[u], id \o <<IndexOf(a, u)>>)]
        h == Cardinality({i \in 1..s : RefEq(c[a[i]], ObjGet(e, a[i]))})
    IN  IF o = s /\ h = o THEN e ELSE Obj(id, a, c)
  ELSE t

Ka == <<"a">>
Kb == <<"b">>
Lit == <<0>>                         \* the id of a value not yet built
SeqsUpTo(S, n) == UNION {[1..m -> S] : m \in 0..n}
(***************************************************************************)
(* Texts: a string is a sequence of characters.                            *)
(***************************************************************************)
DigitChars == <<"0", "1", "2", "3", "4", "5", "6", "7", "8", "9">>
Letters ==
  {"a", "b", "c", "d", "e", "f", "g", "h", "i", "j", "k", "l", "m", "n", "o", "p",
   "q", "r", "s", "t", "u", "v", "w", "x", "y", "z",
   "A", "B", "C", "D", "E", "F", "G", "H", "I", "J", "K", "L", "M", "N", "O", "P",
   "Q", "R", "S", "T", "U", "V", "W", "X", "Y", "Z"}
IsDigit(c) == c \in Range(DigitChars)
TrueText == <<"t", "r", "u", "e">>
FalseText == <<"f", "a", "l", "s", "e">>
NullText == <<"n", "u", "l", "l">>
UndefinedText == <<"u", "n", "d", "e", "f", "i", "n", "e", "d">>
ObjectText == <<"[", "o", "b", "j", "e", "c", "t", " ", "O", "b", "j", "e", "c", "t", "]">>

StartsWith(s, p) == Len(s) >= Len(p) /\ SubSeq(s, 1, Len(p)) = p
Drop(s, n) == SubSeq(s, n + 1, Len(s))
HasChar(s, c) == \E i \in 1..Len(s) : s[i] = c
FirstIndex(s, c) == CHOOSE i \in 1..Len(s) : s[i] = c /\ \A j \in 1..(i - 1) : s[j] # c

\* s.split(c)
RECURSIVE Split(_, _)
Split(s, c) ==
  IF ~HasChar(s, c) THEN <<s>>
  ELSE LET i == FirstIndex(s, c)
       IN  <<SubSeq(s, 1, i - 1)>> \o Split(Drop(s, i), c)

\* the decimal text of a natural number, and the number of a text of digits
RECURSIVE Digits(_)
Digits(n) ==
  IF n < 10 THEN <<DigitChars[n + 1]>>
  ELSE Digits(n \div 10) \o <<DigitChars[(n % 10) + 1]>>
RECURSIVE Decimal(_)
Decimal(s) ==
  IF s = <<>> THEN 0
  ELSE 10 * Decimal(SubSeq(s, 1, Len(s) - 1)) + (IndexOf(DigitChars, s[Len(s)]) - 1)

\* String(v), as encodeURIComponent applies it to its argument
StringOf(v) ==
  CASE v.t = "str" -> v.s
    [] v.t = "num" -> Digits(v.n)
    [] v.t = "bool" -> IF v.b THEN TrueText ELSE FalseText
    [] v.t = "null" -> NullText
    [] v.t = "undef" -> UndefinedText
    [] OTHER -> ObjectText

\* +str: a Number, or NaN.  Signs, fractions, exponents and hexadecimal
\* spellings are not modelled: no text of the model has them.
RECURSIVE TrimLeft(_)
TrimLeft(s) == IF s # <<>> /\ Head(s) = " " THEN TrimLeft(Tail(s)) ELSE s
RECURSIVE TrimRight(_)
TrimRight(s) ==
  IF s # <<>> /\ s[Len(s)] = " " THEN TrimRight(SubSeq(s, 1, Len(s) - 1)) ELSE s
IsNumeric(str) == \A i \in 1..Len(TrimRight(TrimLeft(str))) : IsDigit(TrimRight(TrimLeft(str))[i])
ToNumber(str) == Decimal(TrimRight(TrimLeft(str)))

(***************************************************************************)
(* encodeURIComponent and decodeURIComponent.                              *)
(***************************************************************************)
Unreserved == Letters \cup Range(DigitChars) \cup {"-", "_", ".", "!", "~", "*", "'", "(", ")"}
Escapes ==
  {<<"{", "7", "B">>, <<"}", "7", "D">>, <<"\"", "2", "2">>, <<":", "3", "A">>,
   <<",", "2", "C">>, <<"[", "5", "B">>, <<"]", "5", "D">>, <<"=", "3", "D">>,
   <<"&", "2", "6">>, <<"?", "3", "F">>, <<"%", "2", "5">>, <<" ", "2", "0">>,
   <<"/", "2", "F">>}
EscapeOf(c) == CHOOSE x \in Escapes : x[1] = c
Unescape(h1, h2) == CHOOSE x \in Escapes : x[2] = h1 /\ x[3] = h2

RECURSIVE encodeURIComponent(_)
encodeURIComponent(s) ==
  IF s = <<>> THEN <<>>
  ELSE (IF Head(s) \in Unreserved THEN <<Head(s)>>
        ELSE <<"%", EscapeOf(Head(s))[2], EscapeOf(Head(s))[3]>>)
       \o encodeURIComponent(Tail(s))

\* defined on the texts whose every % starts one of the escapes above
RECURSIVE decodeURIComponent(_)
decodeURIComponent(s) ==
  IF s = <<>> THEN <<>>
  ELSE IF Head(s) = "%" THEN <<Unescape(s[2], s[3])[1]>> \o decodeURIComponent(Drop(s, 3))
  ELSE <<Head(s)>> \o decodeURIComponent(Tail(s))

(***************************************************************************)
(* JSON.stringify and JSON.parse, on texts without white space and on      *)
(* strings without quotes and backslashes.                                 *)
(***************************************************************************)
RECURSIVE Join(_, _)
Join(parts, c) ==
  IF parts = <<>> THEN <<>>
  ELSE IF Len(parts) = 1 THEN parts[1]
  ELSE parts[1] \o <<c>> \o Join(Tail(parts), c)

Quoted(s) == <<"\"">> \o s \o <<"\"">>

RECURSIVE JSONstringify(_)
JSONstringify(v) ==
  CASE v.t = "num" -> Digits(v.n)
    [] v.t = "str" -> Quoted(v.s)
    [] v.t = "bool" -> IF v.b THEN TrueText ELSE FalseText
    [] v.t = "arr" ->
         <<"[">> \o Join([i \in 1..Len(v.e) |-> JSONstringify(v.e[i])], ",") \o <<"]">>
    [] v.t = "obj" ->
         LET ks == SelectSeq(v.k, LAMBDA u : v.f[u].t # "undef")
         IN  <<"{">> \o Join([i \in 1..Len(ks) |->
                                Quoted(ks[i]) \o <<":">> \o JSONstringify(v.f[ks[i]])], ",")
                 \o <<"}">>
    [] OTHER -> NullText

\* the outcome of parsing a prefix of a text: the value and the rest
Parsed(v, rest) == [ok |-> TRUE, v |-> v, rest |-> rest]
SyntaxError == [ok |-> FALSE, v |-> Undef, rest |-> <<>>]

\* the longest prefix of digits
RECURSIVE DigitPrefix(_)
DigitPrefix(s) ==
  IF s # <<>> /\ IsDigit(Head(s)) THEN <<Head(s)>> \o DigitPrefix(Tail(s)) ELSE <<>>

RECURSIVE ParseValue(_, _)
RECURSIVE ParseElements(_, _, _)
RECURSIVE ParseMembers(_, _, _, _)

ParseValue(s, id) ==
  IF s = <<>> THEN SyntaxError
  ELSE IF Head(s) = "\"" THEN
    IF HasChar(Tail(s), "\"")
    THEN LET j == FirstIndex(Tail(s), "\"")
         IN  Parsed(Str(SubSeq(Tail(s), 1, j - 1)), Drop(Tail(s), j))
    ELSE SyntaxError
  ELSE IF Head(s) = "[" THEN
    IF Len(s) >= 2 /\ s[2] = "]" THEN Parsed(Arr(id, <<>>), Drop(s, 2))
    ELSE ParseElements(Tail(s), id, <<>>)
  ELSE IF Head(s) = "{" THEN
    IF Len(s) >= 2 /\ s[2] = "}" THEN Parsed(Obj(id, <<>>, <<>>), Drop(s, 2))
    ELSE ParseMembers(Tail(s), id, <<>>, <<>>)
  ELSE IF StartsWith(s, TrueText) THEN Parsed(Bool(TRUE), Drop(s, Len(TrueText)))
  ELSE IF StartsWith(s, FalseText) THEN Parsed(Bool(FALSE), Drop(s, Len(FalseText)))
  ELSE IF StartsWith(s, NullText) THEN Parsed(Null, Drop(s, Len(NullText)))
  ELSE IF Head(s) = "0" THEN Parsed(Num(0), Tail(s))
  ELSE IF IsDigit(Head(s)) THEN
    Parsed(Num(Decimal(DigitPrefix(s))), Drop(s, Len(DigitPrefix(s))))
  ELSE SyntaxError

\* after "[" or ",": an element, then "," or "]"
ParseElements(s, id, acc) ==
  LET r == ParseValue(s, id \o <<Len(acc) + 1>>)
  IN  IF ~r.ok \/ r.rest = <<>> THEN SyntaxError
      ELSE IF Head(r.rest) = "," THEN ParseElements(Tail(r.rest), id, Append(acc, r.v))
      ELSE IF Head(r.rest) = "]" THEN Parsed(Arr(id, Append(acc, r.v)), Tail(r.rest))
      ELSE SyntaxError

\* after "{" or ",": a quoted key, ":", a value, then "," or "}"
ParseMembers(s, id, ks, f) ==
  LET key == ParseValue(s, id)
  IN  IF ~key.ok \/ key.v.t # "str" \/ key.rest = <<>> \/ Head(key.rest) # ":"
      THEN SyntaxError
      ELSE
        LET u == key.v.s
            r == ParseValue(Tail(key.rest), id \o <<Len(ks) + 1>>)
            ks2 == IF u \in Range(ks) THEN ks ELSE Append(ks, u)
            f2 == [w \in DOMAIN f \cup {u} |-> IF w = u THEN r.v ELSE f[w]]
        IN  IF ~r.ok \/ r.rest = <<>> THEN SyntaxError
            ELSE IF Head(r.rest) = "," THEN ParseMembers(Tail(r.rest), id, ks2, f2)
            ELSE IF Head(r.rest) = "}" THEN Parsed(Obj(id, ks2, f2), Tail(r.rest))
            ELSE SyntaxError

\* JSON.parse(s): ok is FALSE when it throws
JSONparse(s, id) ==
  LET r == ParseValue(s, id)
  IN  IF r.ok /\ r.rest = <<>> THEN r ELSE SyntaxError

(***************************************************************************)
(* The search codec: encode, toValue, decode, parseSearchWith and          *)
(* stringifySearchWith.                                                    *)
(***************************************************************************)
\* the inner loop of encode over the elements of an array value
RECURSIVE encodeArray(_, _, _)
encodeArray(k, e, str) ==
  IF e = <<>> THEN str
  ELSE encodeArray(k, Tail(e),
         (IF str # <<>> THEN str \o <<"&">> ELSE str)
           \o encodeURIComponent(k) \o <<"=">> \o encodeURIComponent(StringOf(Head(e))))

\* the for-in loop of encode over the keys ks of obj, str being built
RECURSIVE encodeLoop(_, _, _)
encodeLoop(ks, obj, str) ==
  IF ks = <<>> THEN str
  ELSE
    LET k == Head(ks)
        tmp == obj.f[k]
    IN  encodeLoop(Tail(ks), obj,
          IF tmp.t = "undef" THEN str
          ELSE IF tmp.t = "arr" THEN encodeArray(k, tmp.e, str)
          ELSE (IF str # <<>> THEN str \o <<"&">> ELSE str)
                 \o encodeURIComponent(k) \o <<"=">> \o encodeURIComponent(StringOf(tmp)))

encode(obj, pfx) == pfx \o encodeLoop(obj.k, obj, <<>>)

\* the mutant of toValue that leaves every value a string
toValueNoCoercion(mix) ==
  IF mix.t = "undef" \/ mix.s = <<>> THEN Str(<<>>)
  ELSE Str(decodeURIComponent(mix.s))

toValue(mix) ==
  IF mix.t = "undef" \/ mix.s = <<>> THEN Str(<<>>)
  ELSE
    LET str == decodeURIComponent(mix.s)
    IN  IF str = FalseText THEN Bool(FALSE)
        ELSE IF str = TrueText THEN Bool(TRUE)
        ELSE IF Head(str) = "0" THEN Str(str)
        ELSE IF IsNumeric(str) THEN Num(ToNumber(str))
        ELSE Str(str)

\* [].concat(x, v)
Concat(x, v, id) == IF x.t = "arr" THEN Arr(id, Append(x.e, v)) ELSE Arr(id, <<x, v>>)

\* the while loop of decode: it ends at the first empty piece
RECURSIVE decodeLoop(_, _)
decodeLoop(arr, out) ==
  IF arr = <<>> \/ Head(arr) = <<>> THEN out
  ELSE
    LET tmp == Split(Head(arr), "=")
        k == tmp[1]
        v == toValue(IF Len(tmp) >= 2 THEN Str(tmp[2]) ELSE Undef)
        at == IF k \in Range(out.k) THEN IndexOf(out.k, k) ELSE Len(out.k) + 1
    IN  decodeLoop(Tail(arr),
          IF k \in DOMAIN out.f
          THEN [out EXCEPT !.f[k] = Concat(out.f[k], v, out.id \o <<at>>)]
          ELSE Obj(out.id, Append(out.k, k),
                   [w \in DOMAIN out.f \cup {k} |-> IF w = k THEN v ELSE out.f[w]]))

decode(str, id) == decodeLoop(Split(str, "&"), Obj(id, <<>>, <<>>))

\* parseSearchWith(JSON.parse)
parseSearch(searchStr, id) ==
  LET query == decode(IF searchStr # <<>> /\ Head(searchStr) = "?"
                      THEN Tail(searchStr) ELSE searchStr, id)
  IN  [query EXCEPT !.f =
         [key \in DOMAIN query.f |->
            LET value == query.f[key]
                r == JSONparse(value.s, id \o <<IndexOf(query.k, key)>>)
            IN  IF value.t = "str" /\ r.ok THEN r.v ELSE value]]

\* stringifySearchWith(JSON.stringify)
stringifySearch(search) ==
  LET keys == SelectSeq(search.k, LAMBDA key : search.f[key].t # "undef")
      copy == Obj(Lit, keys,
                  [key \in Range(keys) |->
                     LET val == search.f[key]
                     IN  IF val.t \in {"arr", "obj"} THEN Str(JSONstringify(val)) ELSE val])
      searchStr == encode(copy, <<>>)
  IN  IF searchStr # <<>> THEN <<"?">> \o searchStr ELSE <<>>

(***************************************************************************)
(* The codec on its own: a search object is stringified, and the string is *)
(* parsed back.  Keys are "a" and "b".                                     *)
(***************************************************************************)
CStrings ==
  {Str(TrueText), Str(<<"1">>), Str(<<"0">>), Str(<<"0", "0", "7">>), Str(<<>>),
   Str(<<"x">>)}
CScalars == CStrings \cup {Num(n) : n \in 0..MaxNum} \cup {Bool(TRUE), Bool(FALSE)}
CArrs == {Arr(Lit, e) : e \in SeqsUpTo({Num(1), Str(<<"1">>), Str(<<"x">>)}, MaxArrLen)}
CNested ==
  {Obj(Lit, <<>>, <<>>)} \cup {Obj(Lit, <<Ka>>, [u \in {Ka} |-> x]) : x \in CScalars}
CValues == CScalars \cup CArrs \cup CNested
CObjects ==
  {Obj(Lit, <<>>, <<>>)}
    \cup {Obj(Lit, <<Ka>>, [u \in {Ka} |-> x]) : x \in CValues}
    \cup {Obj(Lit, <<Ka, Kb>>, [u \in {Ka, Kb} |-> IF u = Ka THEN x[1] ELSE x[2]]) :
            x \in CValues \X CValues}

CodecInit ==
  /\ cPhase = "object"
  /\ cObj \in {Fresh(o, <<1>>) : o \in CObjects}
  /\ cStr = <<>>
  /\ cBack = Undef
  /\ MergeIdle
  /\ StoreIdle
  /\ HistIdle
  /\ RouterIdle

Stringify ==
  /\ cPhase = "object"
  /\ cStr' = stringifySearch(cObj)
  /\ cPhase' = "string"
  /\ UNCHANGED <<cObj, cBack, notCodec>>

Parse ==
  /\ cPhase = "string"
  /\ cBack' = parseSearch(cStr, <<2>>)
  /\ cPhase' = "parsed"
  /\ UNCHANGED <<cObj, cStr, notCodec>>

CodecNext == Stringify \/ Parse

SpecCodec == CodecInit /\ [][CodecNext]_vars

(***************************************************************************)
(* C10: codec round trip.                                                  *)
(***************************************************************************)
\* C10: for every search object o of strings, numbers, booleans, arrays of
\* scalars and nested objects, parseSearch(stringifySearch(o)) is deep-equal
\* to o, every scalar with its original type.
C10_RoundTrip == cPhase = "parsed" => DeepEq(cBack, cObj)

(***************************************************************************)
(* The Store.  A state is an object, known by its id.  A task of the queue *)
(* is the closure of setState: it remembers previous, and reads the state  *)
(* of the Store when it runs.  listeners is the Set in insertion order.    *)
(***************************************************************************)
Store(initialState) ==
  [state |-> initialState, batching |-> FALSE, queue |-> <<>>, listeners |-> <<>>]

\* this.state === previous
SameState(state, previous) == state.id = previous.id

\* the mutant of IsNoOp: setState without its early return
IsNoOpNever(state, previous) == FALSE

\* if (this.state === previous) return
IsNoOp(state, previous) == SameState(state, previous)

\* setState up to the call of #flush: the state is assigned, and when it is
\* another object the task that notifies of the change is queued
setStateCore(st, candidate) ==
  IF IsNoOp(candidate, st.state) THEN [st EXCEPT !.state = candidate]
  ELSE [st EXCEPT !.state = candidate, !.queue = Append(@, [previous |-> st.state])]

\* whether setState runs the hook options.onUpdate(this.state, previous)
RunsOnUpdate(st, candidate) == ~IsNoOp(candidate, st.state)

\* the mutant of FlushRuns: #flush without its test of batching
FlushRunsAlways(st) == TRUE

\* #flush runs the queue unless batching is on
FlushRuns(st) == ~st.batching

(***************************************************************************)
(* The Store on its own.  sStack holds the calls in progress, the          *)
(* innermost last: a cb of batch that is running ("batch"), a #flush that  *)
(* is running the tasks of queue ("flush": task i is at its listener j),   *)
(* and a listener that is running ("listener").  The code that uses the    *)
(* Store runs when sStack is empty, or inside a cb or a listener; it       *)
(* calls setState and batch from there.  sLog records each run of the hook *)
(* onUpdate ("update"), each invocation of a listener ("notify"), each     *)
(* call of batch ("batch") and each return of its cb ("close"), with the   *)
(* depth of sStack at that moment.                                         *)
(***************************************************************************)
Refs == 0..MaxRef
Listeners == {1, 2}

Frame(k, tasks) == [k |-> k, tasks |-> tasks, i |-> 1, j |-> 1]
Event(k, l, next, previous) ==
  [k |-> k, d |-> Len(sStack), l |-> l, next |-> next, previous |-> previous]
Top == sStack[Len(sStack)]
Pop == SubSeq(sStack, 1, Len(sStack) - 1)
UserRuns == IF sStack = <<>> THEN TRUE ELSE Top.k \in {"batch", "listener"}
CallMade(fn, arg) == [n |-> sCall.n + 1, fn |-> fn, arg |-> arg, on |-> store.state.id]

StoreInit ==
  /\ store = Store([id |-> 0])
  /\ sStack = <<>>
  /\ sLog = <<>>
  /\ sCall = [n |-> 0, fn |-> "none", arg |-> 0, on |-> 0]
  /\ MergeIdle
  /\ CodecIdle
  /\ HistIdle
  /\ RouterIdle

\* store.listeners.add(l), before the Store is used
Subscribe(l) ==
  /\ sStack = <<>>
  /\ sCall.n = 0
  /\ l \notin Range(store.listeners)
  /\ store' = [store EXCEPT !.listeners = Append(@, l)]
  /\ UNCHANGED <<sStack, sLog, sCall, notStore>>

\* store.listeners.delete(l)
Unsubscribe(l) ==
  /\ sStack = <<>>
  /\ l \in Range(store.listeners)
  /\ store' = [store EXCEPT !.listeners = SelectSeq(@, LAMBDA x : x # l)]
  /\ UNCHANGED <<sStack, sLog, sCall, notStore>>

\* setState(updater), the updater returning the object r
SetState(r) ==
  /\ UserRuns
  /\ sCall.n < MaxCalls
  /\ sCall' = CallMade("setState", r)
  /\ store' = setStateCore(store, [id |-> r])
  /\ sLog' = IF RunsOnUpdate(store, [id |-> r])
             THEN Append(sLog, Event("update", 0, r, store.state.id))
             ELSE sLog
  /\ sStack' = IF RunsOnUpdate(store, [id |-> r]) /\ FlushRuns(store')
               THEN Append(sStack, Frame("flush", store'.queue))
               ELSE sStack
  /\ UNCHANGED notStore

\* batch(cb), up to the call of cb
BatchBegin ==
  /\ UserRuns
  /\ sCall.n < MaxCalls
  /\ sCall' = CallMade("batch", 0)
  /\ store' = [store EXCEPT !.batching = TRUE]
  /\ sLog' = Append(sLog, Event("batch", 0, store.state.id, store.state.id))
  /\ sStack' = Append(sStack, Frame("batch", <<>>))
  /\ UNCHANGED notStore

\* cb returns: batch clears batching and calls #flush
BatchEnd ==
  /\ sStack # <<>>
  /\ Top.k = "batch"
  /\ store' = [store EXCEPT !.batching = FALSE]
  /\ sLog' = Append(sLog, Event("close", 0, store.state.id, store.state.id))
  /\ sStack' = IF FlushRuns(store') THEN Append(Pop, Frame("flush", store.queue)) ELSE Pop
  /\ UNCHANGED <<sCall, notStore>>

\* the task that is running invokes its next listener with (this.state, previous)
FlushNotify ==
  /\ sStack # <<>>
  /\ Top.k = "flush"
  /\ Top.i <= Len(Top.tasks)
  /\ Top.j <= Len(store.listeners)
  /\ sLog' = Append(sLog, Event("notify", store.listeners[Top.j], store.state.id,
                                Top.tasks[Top.i].previous.id))
  /\ sStack' = Append([sStack EXCEPT ![Len(sStack)].j = @ + 1], Frame("listener", <<>>))
  /\ UNCHANGED <<store, sCall, notStore>>

\* the listener returns
ListenerReturn ==
  /\ sStack # <<>>
  /\ Top.k = "listener"
  /\ sStack' = Pop
  /\ UNCHANGED <<store, sLog, sCall, notStore>>

\* the listener throws (an error of its own, or one of a call it made that it
\* does not catch): the error leaves forEach, the task, #flush and the
\* setState or batch that called #flush, and this.queue = [] is not reached
ListenerThrow ==
  /\ sStack # <<>>
  /\ Top.k = "listener"
  /\ sCall.n < MaxCalls
  /\ sCall' = CallMade("throw", 0)
  /\ sLog' = Append(sLog, [Event("throw", 0, store.state.id, store.state.id)
                             EXCEPT !.d = Len(sStack) - 2])
  /\ sStack' = SubSeq(sStack, 1, Len(sStack) - 2)
  /\ UNCHANGED <<store, notStore>>

\* the task has invoked every listener: forEach goes to the next task
FlushNextTask ==
  /\ sStack # <<>>
  /\ Top.k = "flush"
  /\ Top.i <= Len(Top.tasks)
  /\ Top.j > Len(store.listeners)
  /\ sStack' = [sStack EXCEPT ![Len(sStack)].i = @ + 1, ![Len(sStack)].j = 1]
  /\ UNCHANGED <<store, sLog, sCall, notStore>>

\* forEach is over: this.queue = []
FlushDone ==
  /\ sStack # <<>>
  /\ Top.k = "flush"
  /\ Top.i > Len(Top.tasks)
  /\ store' = [store EXCEPT !.queue = <<>>]
  /\ sStack' = Pop
  /\ UNCHANGED <<sLog, sCall, notStore>>

StoreNext ==
  \/ \E l \in Listeners : Subscribe(l)
  \/ \E l \in Listeners : Unsubscribe(l)
  \/ \E r \in Refs : SetState(r)
  \/ BatchBegin
  \/ BatchEnd
  \/ FlushNotify
  \/ ListenerReturn
  \/ ListenerThrow
  \/ FlushNextTask
  \/ FlushDone

SpecStore == StoreInit /\ [][StoreNext]_vars

(***************************************************************************)
(* The History Queue of createHistory.  A task of the queue is the closure *)
(* of a mutating call: the host operation it will run, and its argument.   *)
(* attached tells whether unsub is the detach function of a host listener  *)
(* that is attached.                                                       *)
(***************************************************************************)
createHistory(location) ==
  [location |-> location, attached |-> FALSE, listeners |-> <<>>, queue |-> <<>>]

\* the host: pushState, replaceState, and go, back and forward, which only
\* ask for a move that the host makes later
hostPushState(h, path) ==
  [h EXCEPT !.entries = Append(SubSeq(h.entries, 1, h.at), path), !.at = h.at + 1]
hostReplaceState(h, path) == [h EXCEPT !.entries[h.at] = path]
hostGo(h, n) == [h EXCEPT !.pending = @ + n]
hostRun(h, task) ==
  CASE task.op = "pushState" -> hostPushState(h, task.path)
    [] task.op = "replaceState" -> hostReplaceState(h, task.path)
    [] task.op = "go" -> hostGo(h, task.n)
    [] task.op = "back" -> hostGo(h, 0 - 1)
    [] task.op = "forward" -> hostGo(h, 1)
\* opts.getLocation()
hostLocation(h) == h.entries[h.at]

\* the mutant of queueTask that drops the task
queueTaskLost(q, task) == q

\* queue.push(task)
queueTask(q, task) == Append(q, task)

\* the mutant of shift that leaves the task in the queue
shiftKept(q) == q

\* queue.shift(): what is left in the queue
shift(q) == Tail(q)

(***************************************************************************)
(* The History Queue on its own.  hStack holds the calls in progress: a    *)
(* tryFlush that is draining the queue ("drain"), a task of the queue that *)
(* is running an operation of the host adapter ("task"), an onUpdate that  *)
(* is invoking listener j ("update"), and a listener that is running       *)
(* ("listener").  The code that uses the History Queue runs when hStack is *)
(* empty or inside a listener; the host adapter (opts) is code of the user *)
(* too, and may call the History Queue from inside a task.  An operation   *)
(* of the adapter may throw.  hLog records each call of the History Queue  *)
(* (with the depth of hStack), each host operation, each listener          *)
(* invocation and each error ("throw", with the depth of the code that     *)
(* receives it).                                                           *)
(***************************************************************************)
Paths == {"/a", "/b"}
HListeners == {1, 2}

HFrame(k) == [k |-> k, j |-> 1]
HEvent(k, l, path) == [k |-> k, d |-> Len(hStack), l |-> l, path |-> path]
HTop == hStack[Len(hStack)]
HPop == SubSeq(hStack, 1, Len(hStack) - 1)
HUserRuns == IF hStack = <<>> THEN TRUE ELSE HTop.k \in {"listener", "task"}
\* an error has just reached the code that runs now, which has not caught it
HThrown ==
  IF hLog = <<>> THEN FALSE
  ELSE hLog[Len(hLog)].k = "throw" /\ hLog[Len(hLog)].d = Len(hStack)
\* the error leaves the two innermost calls and reaches the code below them
HThrow == [k |-> "throw", d |-> Len(hStack) - 2, l |-> 0, path |-> ""]
HUnwind == SubSeq(hStack, 1, Len(hStack) - 2)
Task(op, path, n) == [op |-> op, path |-> path, n |-> n]

HistInit ==
  /\ hHost = [entries |-> <<"/a">>, at |-> 1, pending |-> 0]
  /\ hist = createHistory(hostLocation(hHost))
  /\ hStack = <<>>
  /\ hLog = <<>>
  /\ hCalls = 0
  /\ MergeIdle
  /\ CodecIdle
  /\ StoreIdle
  /\ RouterIdle

\* listen(cb): listeners is a Set, a cb that is in it is not added again
Listen(cb) ==
  /\ hStack = <<>>
  /\ hCalls < MaxHistCalls
  /\ hCalls' = hCalls + 1
  /\ hist' = [hist EXCEPT !.attached = TRUE,
                          !.listeners = IF cb \in Range(@) THEN @ ELSE Append(@, cb)]
  /\ hLog' = IF hist.listeners = <<>>
             THEN hLog \o <<HEvent("listen", cb, ""), HEvent("attach", cb, "")>>
             ELSE Append(hLog, HEvent("listen", cb, ""))
  /\ UNCHANGED <<hHost, hStack, notHist>>

\* a function that listen(cb) returned: it may be called more than once
Unlisten(cb) ==
  /\ hStack = <<>>
  /\ hCalls < MaxHistCalls
  /\ hCalls' = hCalls + 1
  /\ \E i \in 1..Len(hLog) : hLog[i].k = "listen" /\ hLog[i].l = cb
  /\ LET left == SelectSeq(hist.listeners, LAMBDA x : x # cb)
     IN  /\ hist' = [hist EXCEPT !.listeners = left,
                                 !.attached = IF left = <<>> THEN FALSE ELSE @]
         /\ hLog' = IF left = <<>>
                    THEN hLog \o <<HEvent("unlisten", cb, ""), HEvent("detach", cb, "")>>
                    ELSE Append(hLog, HEvent("unlisten", cb, ""))
  /\ UNCHANGED <<hHost, hStack, notHist>>

\* push, replace, go, back, forward: queueTask(task), up to the loop of tryFlush
Mutate(call, task) ==
  /\ HUserRuns
  /\ hCalls < MaxHistCalls
  /\ hCalls' = hCalls + 1
  /\ hist' = [hist EXCEPT !.queue = queueTask(@, task)]
  /\ hLog' = Append(hLog, HEvent(call, 0, task.path))
  /\ hStack' = Append(hStack, HFrame("drain"))
  /\ UNCHANGED <<hHost, notHist>>

Push(path) == Mutate("push", Task("pushState", path, 0))
Replace(path) == Mutate("replace", Task("replaceState", path, 0))
Go(n) == Mutate("go", Task("go", "", n))
Back == Mutate("back", Task("back", "", 0))
Forward == Mutate("forward", Task("forward", "", 0))

\* tryFlush: queue.shift()?.() takes the first task and runs it on the host
DrainTask ==
  /\ hStack # <<>>
  /\ HTop.k = "drain"
  /\ hist.queue # <<>>
  /\ hHost' = hostRun(hHost, Head(hist.queue))
  /\ hist' = [hist EXCEPT !.queue = shift(@)]
  /\ hLog' = Append(hLog, HEvent(Head(hist.queue).op, 0, Head(hist.queue).path))
  /\ hStack' = Append(hStack, HFrame("task"))
  /\ UNCHANGED <<hCalls, notHist>>

\* tryFlush: queue.shift()?.() takes the first task, whose host operation
\* throws: the error leaves tryFlush and the mutating call
DrainThrow ==
  /\ hStack # <<>>
  /\ HTop.k = "drain"
  /\ hist.queue # <<>>
  /\ hist' = [hist EXCEPT !.queue = shift(@)]
  /\ hLog' = Append(hLog, [k |-> "throw", d |-> Len(hStack) - 1, l |-> 0,
                           path |-> Head(hist.queue).path])
  /\ hStack' = HPop
  /\ UNCHANGED <<hHost, hCalls, notHist>>

\* the task returns
TaskReturn ==
  /\ hStack # <<>>
  /\ HTop.k = "task"
  /\ hStack' = HPop
  /\ UNCHANGED <<hist, hHost, hLog, hCalls, notHist>>

\* a task or a listener does not catch the error of the call it made: the
\* error leaves it and the tryFlush or onUpdate that was running it
Rethrow ==
  /\ hStack # <<>>
  /\ HTop.k \in {"task", "listener"}
  /\ HThrown
  /\ hLog' = Append(hLog, HThrow)
  /\ hStack' = HUnwind
  /\ UNCHANGED <<hist, hHost, hCalls, notHist>>

\* tryFlush: the queue is empty, onUpdate() re-reads the location
DrainDone ==
  /\ hStack # <<>>
  /\ HTop.k = "drain"
  /\ hist.queue = <<>>
  /\ hist' = [hist EXCEPT !.location = hostLocation(hHost)]
  /\ hStack' = Append(HPop, HFrame("update"))
  /\ UNCHANGED <<hHost, hLog, hCalls, notHist>>

\* the host makes a move (one that go, back or forward asked for, or one of
\* the user) and fires its change event: onUpdate() when it is attached
PopState(n) ==
  /\ hStack = <<>>
  /\ hCalls < MaxHistCalls
  /\ hCalls' = hCalls + 1
  /\ hHost.pending # 0 => n = hHost.pending
  /\ hHost.at + n \in 1..Len(hHost.entries)
  /\ hHost' = [hHost EXCEPT !.at = @ + n, !.pending = 0]
  /\ hLog' = Append(hLog, HEvent("popstate", 0, hHost.entries[hHost.at + n]))
  /\ hist' = IF hist.attached THEN [hist EXCEPT !.location = hostLocation(hHost')] ELSE hist
  /\ hStack' = IF hist.attached THEN <<HFrame("update")>> ELSE hStack
  /\ UNCHANGED notHist

\* the host drops a move that leads outside its entries
PopNothing ==
  /\ hStack = <<>>
  /\ hHost.pending # 0
  /\ hHost.at + hHost.pending \notin 1..Len(hHost.entries)
  /\ hHost' = [hHost EXCEPT !.pending = 0]
  /\ UNCHANGED <<hist, hStack, hLog, hCalls, notHist>>

\* onUpdate: listeners.forEach invokes the next listener
UpdateNotify ==
  /\ hStack # <<>>
  /\ HTop.k = "update"
  /\ HTop.j <= Len(hist.listeners)
  /\ hLog' = Append(hLog, HEvent("notify", hist.listeners[HTop.j], hist.location))
  /\ hStack' = Append([hStack EXCEPT ![Len(hStack)].j = @ + 1], HFrame("listener"))
  /\ UNCHANGED <<hist, hHost, hCalls, notHist>>

\* the listener returns
HListenerReturn ==
  /\ hStack # <<>>
  /\ HTop.k = "listener"
  /\ hStack' = HPop
  /\ UNCHANGED <<hist, hHost, hLog, hCalls, notHist>>

\* onUpdate returns, and with it tryFlush and the mutating call
UpdateDone ==
  /\ hStack # <<>>
  /\ HTop.k = "update"
  /\ HTop.j > Len(hist.listeners)
  /\ hStack' = HPop
  /\ UNCHANGED <<hist, hHost, hLog, hCalls, notHist>>

HistNext ==
  \/ \E cb \in HListeners : Listen(cb)
  \/ \E cb \in HListeners : Unlisten(cb)
  \/ \E path \in Paths : Push(path)
  \/ \E path \in Paths : Replace(path)
  \/ \E n \in {0 - 1, 1} : Go(n)
  \/ Back
  \/ Forward
  \/ DrainTask
  \/ DrainThrow
  \/ TaskReturn
  \/ Rethrow
  \/ DrainDone
  \/ \E n \in {0 - 1, 1} : PopState(n)
  \/ PopNothing
  \/ UpdateNotify
  \/ HListenerReturn
  \/ UpdateDone

SpecHistory == HistInit /\ [][HistNext]_vars

(***************************************************************************)
(* The values the merge is tried on.  Keys are "a" and "b".                *)
(***************************************************************************)
MScalars == {Num(n) : n \in 1..MaxNum} \cup {Undef}
MLeafArrs == {Arr(Lit, e) : e \in SeqsUpTo({Num(n) : n \in 1..MaxNum}, MaxArrLen)}
MLeafObjs ==
  {Obj(Lit, <<>>, <<>>)}
    \cup {Obj(Lit, <<Ka>>, [u \in {Ka} |-> x]) : x \in MScalars}
    \cup {Obj(Lit, ks, [u \in {Ka, Kb} |-> IF u = Ka THEN x[1] ELSE x[2]]) :
            ks \in {<<Ka, Kb>>, <<Kb, Ka>>}, x \in MScalars \X MScalars}
MLeafs == MLeafArrs \cup MLeafObjs
MEntries == MScalars \cup MLeafs
MTopObjs ==
  {Obj(Lit, ks, [u \in {Ka, Kb} |-> IF u = Ka THEN x[1] ELSE x[2]]) :
     ks \in {<<Ka, Kb>>, <<Kb, Ka>>}, x \in MScalars \X MLeafs}
MTopArrs ==
  {Arr(Lit, e) : e \in {<<x, y>> : x \in MLeafObjs, y \in {Num(1), Undef}}}
MValues == MEntries \cup MTopObjs \cup MTopArrs \cup {Inst(Lit)}

\* {...s, u: v}: a new object with s's entries (the same references) and u set
Spread1(s, u, v, id) ==
  Obj(id,
      IF u \in Range(s.k) THEN s.k ELSE Append(s.k, u),
      [w \in DOMAIN s.f \cup {u} |-> IF w = u THEN v ELSE s.f[w]])

\* v with its keys in the opposite insertion order
Reversed(v) ==
  IF v.t = "obj" THEN [v EXCEPT !.k = [i \in 1..Len(v.k) |-> v.k[Len(v.k) + 1 - i]]]
  ELSE v

(***************************************************************************)
(* The merge on its own: previous is built, next is built as a different   *)
(* object (a copy, a copy with one entry replaced, a spread of previous,   *)
(* or any other value), and d is applied.                                  *)
(***************************************************************************)
MergeInit ==
  /\ mPhase = "previous"
  /\ mPrev \in {Fresh(v, <<1>>) : v \in MValues}
  /\ mNext = Undef
  /\ mResult = Undef
  /\ CodecIdle
  /\ StoreIdle
  /\ HistIdle
  /\ RouterIdle

\* next is structurally equal to previous and a different object at every level
BuildCopy ==
  /\ mPhase = "previous"
  /\ \E rev \in BOOLEAN :
       mNext' = Fresh(IF rev THEN Reversed(mPrev) ELSE mPrev, <<2>>)
  /\ mPhase' = "next"
  /\ UNCHANGED <<mPrev, mResult, notMerge>>

\* next is a copy of previous with the entry at one key or index replaced
BuildChanged ==
  /\ mPhase = "previous"
  /\ \/ /\ mPrev.t = "obj"
        /\ \E u \in DOMAIN mPrev.f, v \in MEntries :
             mNext' = Fresh([mPrev EXCEPT !.f[u] = v], <<2>>)
     \/ /\ mPrev.t = "arr"
        /\ \E i \in 1..Len(mPrev.e), v \in MEntries :
             mNext' = Fresh([mPrev EXCEPT !.e[i] = v], <<2>>)
  /\ mPhase' = "next"
  /\ UNCHANGED <<mPrev, mResult, notMerge>>

\* next is {...previous, u: v}: its other entries are previous's own
BuildSpread ==
  /\ mPhase = "previous"
  /\ mPrev.t = "obj"
  /\ \E u \in {Ka, Kb}, v \in MScalars :
       mNext' = Spread1(mPrev, u, Fresh(v, <<2, 1>>), <<2>>)
  /\ mPhase' = "next"
  /\ UNCHANGED <<mPrev, mResult, notMerge>>

\* next is previous without one of its keys and with another key, whose value
\* is undefined: what an updater returns that drops a key and adds one
BuildRekeyed ==
  /\ mPhase = "previous"
  /\ mPrev.t = "obj"
  /\ \E u \in DOMAIN mPrev.f, w \in {Ka, Kb} \ DOMAIN mPrev.f :
       mNext' = Obj(<<2>>, Append(SelectSeq(mPrev.k, LAMBDA x : x # u), w),
                    [x \in (DOMAIN mPrev.f \ {u}) \cup {w} |->
                       IF x = w THEN Undef ELSE mPrev.f[x]])
  /\ mPhase' = "next"
  /\ UNCHANGED <<mPrev, mResult, notMerge>>

\* next is any other value
BuildOther ==
  /\ mPhase = "previous"
  /\ mNext' \in {Fresh(v, <<2>>) : v \in MEntries \cup {Inst(Lit)}}
  /\ mPhase' = "next"
  /\ UNCHANGED <<mPrev, mResult, notMerge>>

Merge ==
  /\ mPhase = "next"
  /\ mResult' = d(mPrev, mNext, <<3>>)
  /\ mPhase' = "merged"
  /\ UNCHANGED <<mPrev, mNext, notMerge>>

MergeNext ==
  BuildCopy \/ BuildChanged \/ BuildSpread \/ BuildRekeyed \/ BuildOther \/ Merge

SpecMerge == MergeInit /\ [][MergeNext]_vars

(***************************************************************************)
(* The browser under a Router.  A history state (history.state, the state  *)
(* of a location) is null, undefined or an object with the entries id, key *)
(* and x; an entry that is 0 is absent.  Ids and keys are the stamps of    *)
(* the calls that made them.                                               *)
(***************************************************************************)
StateNull == [k |-> "null", id |-> 0, key |-> 0, x |-> 0]
StateUndefined == [k |-> "undefined", id |-> 0, key |-> 0, x |-> 0]
StateObj(id, key, x) == [k |-> "object", id |-> id, key |-> key, x |-> x]

\* {...a, ...b}: the entries of b win; null and undefined spread to nothing
SpreadState(a, b) ==
  StateObj(IF b.id # 0 THEN b.id ELSE a.id,
           IF b.key # 0 THEN b.key ELSE a.key,
           IF b.x # 0 THEN b.x ELSE a.x)

\* href.substring(0, end): a negative end counts as 0
substring0(href, end) == SubSeq(href, 1, IF end < 0 THEN 0 ELSE end)

\* href.indexOf("?"), counted from 0
indexOfQuery(href) == IF HasChar(href, "?") THEN FirstIndex(href, "?") - 1 ELSE 0 - 1

parseLocation(href, state) ==
  LET searchIndex == indexOfQuery(href)
  IN  [href |-> href,
       pathname |-> substring0(href, searchIndex),
       search |-> IF searchIndex > 0 - 1 THEN Drop(href, searchIndex) ELSE <<>>,
       state |-> state]

\* createBrowserHistory: getHref and getLocation
getHref(win) == win.pathname \o win.search
getLocation(win) == parseLocation(getHref(win), win.state)

\* window.history.replaceState({...state, key}, "", path): the browser takes
\* the pathname and the query of path; a query of "?" alone reads as ""
replaceState(win, path, state, key) ==
  LET at == indexOfQuery(path)
      query == IF at > 0 - 1 THEN Drop(path, at) ELSE <<>>
  IN  [pathname |-> IF at > 0 - 1 THEN SubSeq(path, 1, at) ELSE path,
       search |-> IF query = <<"?">> THEN <<>> ELSE query,
       state |-> SpreadState(state, StateObj(0, key, 0))]

(***************************************************************************)
(* The Router.  A location of it (ParsedLocation) is an object with an     *)
(* identity; the state of its Store is an object with an identity that     *)
(* holds latestLocation and currentLocation.                               *)
(***************************************************************************)
Loc(id, pathname, searchStr, search, href, state) ==
  [t |-> "loc", id |-> id, pathname |-> pathname, searchStr |-> searchStr,
   search |-> search, href |-> href, state |-> state]

\* a === b on locations and null
LocEq(a, b) == IF a.t = "loc" /\ b.t = "loc" THEN a.id = b.id ELSE a.t = b.t

RouterState(id, latestLocation, currentLocation) ==
  [id |-> id, latestLocation |-> latestLocation, currentLocation |-> currentLocation]

getInitialRouterState == RouterState(<<0>>, Null, Null)

\* {...a, ...b} on objects: a's keys, then b's new keys; b's entries win
Spread(a, b, id) ==
  Obj(id,
      a.k \o SelectSeq(b.k, LAMBDA u : u \notin Range(a.k)),
      [u \in DOMAIN a.f \cup DOMAIN b.f |-> IF u \in DOMAIN b.f THEN b.f[u] ELSE a.f[u]])

\* options.preSearchFilters[0]: sf => ({...defaultValues, ...sf})
preSearchFilter(defaultValues, sf, id) == Spread(defaultValues, sf, id)

\* the event of the log: a call of the host, or a subscriber given (next, prev)
REvent(k, l, path, hs, next, prev, gen) ==
  [k |-> k, l |-> l, path |-> path, hs |-> hs, next |-> next, prev |-> prev, gen |-> gen]
Notified(l, next, prev) == REvent("notify", l, <<>>, StateNull, next, prev, 0)

\* F(v), with v evaluated once
With(v, F(_)) == CHOOSE y \in {F(x) : x \in {v}} : TRUE

\* #flush on a Store whose listeners make no calls: each task of the queue
\* gives (this.state, previous) to each listener
Deliver(st) ==
  LET n == Len(st.listeners)
  IN  [m \in 1..(Len(st.queue) * n) |->
         Notified(st.listeners[((m - 1) % n) + 1], st.state,
                  st.queue[((m - 1) \div n) + 1].previous)]
flush(rt) ==
  IF FlushRuns(rt.store)
  THEN [rt EXCEPT !.store.queue = <<>>, !.out = @ \o Deliver(rt.store)]
  ELSE rt

\* __store.setState(o => candidate); the hook onUpdate sets this.state
setState(rt, candidate) ==
  With([rt EXCEPT !.store = setStateCore(rt.store, candidate),
                  !.state = IF RunsOnUpdate(rt.store, candidate) THEN candidate ELSE @],
       LAMBDA r : flush(r))

\* #e(t): the location of the history, its search merged into t's
hash_e(rt, t, id) ==
  Loc(id, rt.history.location.pathname, rt.history.location.search,
      d(IF t.t = "loc" THEN t.search ELSE Undef,
        parseSearch(rt.history.location.search, id \o <<1>>), id \o <<2>>),
      rt.history.location.pathname \o rt.history.location.search,
      rt.history.location.state)

\* load(t): the batch with the first setState, then the second setState
loadBatch(rt, t, id) ==
  With(IF t.t = "loc"
       THEN setState([rt EXCEPT !.store.batching = TRUE],
                     RouterState(id \o <<1>>, t, rt.store.state.currentLocation))
       ELSE [rt EXCEPT !.store.batching = TRUE],
       LAMBDA r : flush([r EXCEPT !.store.batching = FALSE]))
\* a load that leaves out the second setState
loadUncommitted(rt, t, id) == loadBatch(rt, t, id)
load(rt, t, id) ==
  With(loadBatch(rt, t, id),
       LAMBDA r : setState(r, RouterState(id \o <<2>>, r.store.state.latestLocation,
                                          r.state.latestLocation)))

\* the listener of update: load({next: #e(this.state.latestLocation)})
onHistoryUpdate(rt, id) ==
  With(hash_e(rt, rt.state.latestLocation, id \o <<1>>),
       LAMBDA next : load(rt, next, id \o <<2>>))

\* S(t.search, s) ?? {} and S(t.state, previous) for the intents in use
SearchIntent(k, key, v) == [k |-> k, key |-> key, v |-> v]
StateIntent(k, v) == [k |-> k, v |-> v]
Intent(search, state) == [search |-> search, state |-> state]
S_search(e, t, id) ==
  CASE e.k = "value" -> e.v
    [] e.k = "updater" -> Spread1(t, e.key, Fresh(e.v, id \o <<1>>), id)
S_state(e, t) ==
  CASE e.k = "value" -> e.v
    [] e.k = "updater" -> SpreadState(t, e.v)
    [] OTHER -> StateUndefined

\* #buildLocation(t)
buildLocation(rt, win, t, id) ==
  With(d(rt.state.latestLocation.search,
         IF t.search.k \in {"value", "updater"}
         THEN S_search(t.search,
                       preSearchFilter(rt.defaultValues, rt.state.latestLocation.search,
                                       id \o <<1>>),
                       id \o <<2>>)
         ELSE preSearchFilter(rt.defaultValues, rt.state.latestLocation.search,
                              id \o <<1>>),
         id \o <<3>>),
       LAMBDA i :
         With(stringifySearch(i),
              LAMBDA u :
                [pathname |-> win.pathname, search |-> i, searchStr |-> u,
                 state |-> IF t.state.k = "true" THEN rt.state.latestLocation.state
                           ELSE S_state(t.state, rt.state.latestLocation.state),
                 href |-> win.pathname \o <<"/">> \o u]))

\* navigate(t): history.replace runs replaceState on the host, re-reads the
\* location and runs the listener of update
replaced(rt, win, r, n) ==
  [rt EXCEPT !.history.location = getLocation(win),
             !.out = Append(@, REvent("replaceState", 0, r.pathname \o r.searchStr,
                                      win.state, getInitialRouterState,
                                      getInitialRouterState, n))]
navigate(rt, win, t, n) ==
  With(buildLocation(rt, win, t, <<n, 1>>),
       LAMBDA r :
         With(replaceState(win, r.pathname \o r.searchStr,
                           SpreadState(StateObj(n, 0, 0), r.state), n),
              LAMBDA win1 :
                With(replaced(rt, win1, r, n),
                     LAMBDA rt1 :
                       [rt |-> onHistoryUpdate(rt1, <<n, 2>>), win |-> win1,
                        candidate |-> r])))

\* update(t) of the constructor: the history is created, the first location
\* is stored and the listener is registered
update(rt, win, n) ==
  With([rt EXCEPT !.history = createHistory(getLocation(win))],
       LAMBDA rt1 :
         With(hash_e(rt1, Null, <<n, 0, 1>>),
              LAMBDA loc :
                [setState(rt1, RouterState(<<n, 0>>, loc, loc))
                   EXCEPT !.history.attached = TRUE, !.history.listeners = <<0>>]))

\* new Router(t)
NewRouter(defaultValues) ==
  [built |-> FALSE, defaultValues |-> defaultValues,
   history |-> createHistory(parseLocation(<<>>, StateNull)),
   store |-> Store(getInitialRouterState), state |-> getInitialRouterState,
   out |-> <<>>]
Router(defaultValues, win, n) ==
  With(update([NewRouter(defaultValues) EXCEPT !.built = TRUE], win, n),
       LAMBDA rt1 :
         With(buildLocation(rt1, win, Intent(SearchIntent("true", <<>>, Undef),
                                             StateIntent("true", StateUndefined)),
                            <<n, 3>>),
              LAMBDA r :
                IF rt1.state.latestLocation.href # r.href
                THEN navigate(rt1, win, Intent(SearchIntent("value", <<>>, r.search),
                                               StateIntent("value", r.state)), n)
                ELSE [rt |-> rt1, win |-> win, candidate |-> r]))

(***************************************************************************)
(* The Router on its own, in a browser at the pathname "/p".  The code     *)
(* that uses it constructs it (useSearch), subscribes to its __store,      *)
(* calls navigate and load; the browser moves to another entry of its      *)
(* history (popstate).  The subscribers make no calls of their own.  rLog  *)
(* records each replaceState of the host, each host move and each          *)
(* invocation of a subscriber.                                             *)
(***************************************************************************)
Pathname == <<"/", "p">>
NestedA1 == Obj(<<0, 2>>, <<Ka>>, (Ka :> Num(1)))
RValues == {Num(2), Str(<<"1">>), Obj(Lit, <<Ka>>, (Ka :> Num(2)))}
RDefaults ==
  { Obj(<<0, 1>>, <<>>, <<>>),
    Obj(<<0, 1>>, <<Ka>>, (Ka :> Num(1))),
    Obj(<<0, 1>>, <<Ka>>, (Ka :> Str(<<"1">>))),
    Obj(<<0, 1>>, <<Ka, Kb>>, (Ka :> Num(1)) @@ (Kb :> NestedA1)) }
RQueries == {<<>>, <<"?", "a", "=", "2">>}
OldState == StateObj(1, 1, 0)      \* the state an earlier page load left
RStates == {StateNull, OldState}
RSubscribers == {1, 2}
RSearchIntents ==
  {SearchIntent("true", <<>>, Undef), SearchIntent("absent", <<>>, Undef)}
    \cup {SearchIntent("updater", Ka, v) : v \in RValues}
RStateIntents ==
  { StateIntent("true", StateUndefined), StateIntent("absent", StateUndefined),
    StateIntent("value", StateObj(0, 0, 1)), StateIntent("updater", StateObj(0, 0, 1)) }
\* the intents vary the search or the state, not both
RIntents ==
  {Intent(a, StateIntent("absent", StateUndefined)) : a \in RSearchIntents}
    \cup {Intent(SearchIntent("true", <<>>, Undef), b) : b \in RStateIntents}
NoIntent == Intent(SearchIntent("absent", <<>>, Undef), StateIntent("absent", StateUndefined))
NoCandidate ==
  [pathname |-> <<>>, search |-> Undef, searchStr |-> <<>>, state |-> StateUndefined,
   href |-> <<>>]

\* the call fn made now: its intent, its candidate location, the state and
\* the query it found, and where its events begin in rLog
RCallMade(fn, intent, candidate) ==
  [n |-> rCall.n + 1, fn |-> fn, intent |-> intent, candidate |-> candidate,
   before |-> router.state, query |-> window.search, from |-> Len(rLog),
   gen |-> rNext]

RouterInit ==
  /\ \E defaultValues \in RDefaults : router = NewRouter(defaultValues)
  /\ \E q \in RQueries : \E hs \in RStates :
       window = [pathname |-> Pathname, search |-> q, state |-> hs]
  /\ rLog = <<>>
  /\ rCall = [n |-> 0, fn |-> "none", intent |-> NoIntent, candidate |-> NoCandidate,
              before |-> getInitialRouterState, query |-> <<>>, from |-> 0, gen |-> 0]
  /\ rNext = 2
  /\ MergeIdle
  /\ CodecIdle
  /\ StoreIdle
  /\ HistIdle

\* useSearch(defaultValues, validateFunc): new Router(...)
Construct ==
  /\ ~router.built
  /\ \E r \in {Router(router.defaultValues, window, rNext)} :
       /\ router' = r.rt
       /\ window' = r.win
       /\ rLog' = rLog \o r.rt.out
       /\ rCall' = RCallMade("construct", NoIntent, r.candidate)
  /\ rNext' = rNext + 1
  /\ UNCHANGED notRouter

\* router.__store.listeners.add(l) and delete(l), once the Router is built
RSubscribe(l) ==
  /\ router.built
  /\ rCall.n = 1
  /\ l \notin Range(router.store.listeners)
  /\ router' = [router EXCEPT !.store.listeners = Append(@, l)]
  /\ UNCHANGED <<window, rLog, rCall, rNext, notRouter>>

RUnsubscribe(l) ==
  /\ router.built
  /\ rCall.n = 1
  /\ l \in Range(router.store.listeners)
  /\ router' = [router EXCEPT !.store.listeners = SelectSeq(@, LAMBDA x : x # l)]
  /\ UNCHANGED <<window, rLog, rCall, rNext, notRouter>>

\* router.navigate(t)
Navigate(t) ==
  /\ router.built
  /\ rCall.n <= MaxRouterCalls
  /\ \E r \in {navigate([router EXCEPT !.out = <<>>], window, t, rNext)} :
       /\ router' = r.rt
       /\ window' = r.win
       /\ rLog' = rLog \o r.rt.out
       /\ rCall' = RCallMade("navigate", t, r.candidate)
  /\ rNext' = rNext + 1
  /\ UNCHANGED notRouter

\* router.load()
Load ==
  /\ router.built
  /\ rCall.n <= MaxRouterCalls
  /\ router' = load([router EXCEPT !.out = <<>>], Undef, <<rNext, 2>>)
  /\ rLog' = rLog \o router'.out
  /\ rCall' = RCallMade("load", NoIntent, NoCandidate)
  /\ rNext' = rNext + 1
  /\ UNCHANGED <<window, notRouter>>

\* the browser moves to another entry of its history and fires popstate: the
\* history re-reads the location and runs the listener of update
HostMove(q, hs) ==
  /\ router.built
  /\ rCall.n <= MaxRouterCalls
  /\ <<q, hs>> # <<window.search, window.state>>
  /\ window' = [window EXCEPT !.search = q, !.state = hs]
  /\ \E rt1 \in {[router EXCEPT !.history.location = getLocation(window'),
                                  !.out = <<REvent("popstate", 0, getHref(window'), hs,
                                                   getInitialRouterState,
                                                   getInitialRouterState, 0)>>]} :
       router' = onHistoryUpdate(rt1, <<rNext, 2>>)
  /\ rLog' = rLog \o router'.out
  /\ rCall' = RCallMade("popstate", NoIntent, NoCandidate)
  /\ rNext' = rNext + 1
  /\ UNCHANGED notRouter

\* the host fires popstate although its location is the one the history read
\* last: the history re-reads it and runs the listener of update
HostEcho ==
  /\ router.built
  /\ rCall.n <= MaxRouterCalls
  /\ \E rt1 \in {[router EXCEPT !.history.location = getLocation(window),
                                  !.out = <<REvent("popstate", 0, getHref(window),
                                                   window.state, getInitialRouterState,
                                                   getInitialRouterState, 0)>>]} :
       router' = onHistoryUpdate(rt1, <<rNext, 2>>)
  /\ rLog' = rLog \o router'.out
  /\ rCall' = RCallMade("echo", NoIntent, NoCandidate)
  /\ rNext' = rNext + 1
  /\ UNCHANGED <<window, notRouter>>

RouterNext ==
  \/ Construct
  \/ \E l \in RSubscribers : RSubscribe(l)
  \/ \E l \in RSubscribers : RUnsubscribe(l)
  \/ \E t \in RIntents : Navigate(t)
  \/ Load
  \/ \E q \in RQueries : \E hs \in RStates : HostMove(q, hs)
  \/ HostEcho

SpecRouter == RouterInit /\ [][RouterNext]_vars

(***************************************************************************)
(* C9: merge identity preservation.                                        *)
(***************************************************************************)
\* the keys (or indices) of a container, and its entry at one of them
KeysOf(v) == IF v.t = "obj" THEN DOMAIN v.f ELSE IF v.t = "arr" THEN 1..Len(v.e) ELSE {}
EntryOf(v, u) == IF v.t = "obj" THEN v.f[u] ELSE v.e[u]
Differing(p, n) == {u \in KeysOf(p) : ~DeepEq(EntryOf(p, u), EntryOf(n, u))}
SameShape(p, n) ==
  /\ p.t = n.t
  /\ p.t \in {"arr", "obj"}
  /\ KeysOf(p) = KeysOf(n)
MergeCase ==
  /\ mPhase = "merged"
  /\ ~HasUndef(mPrev)
  /\ ~HasUndef(mNext)
  /\ Ids(mPrev) \cap Ids(mNext) = {}

\* C9: when next is structurally equal to previous (arrays, plain objects and
\* scalars) but a different object at every level, d returns previous itself;
\* when exactly one key differs, d returns a new container whose other
\* entries are previous's own entries, by reference.
C9_MergeIdentity ==
  /\ (MergeCase /\ DeepEq(mPrev, mNext)) => RefEq(mResult, mPrev)
  /\ (MergeCase /\ SameShape(mPrev, mNext) /\ Cardinality(Differing(mPrev, mNext)) = 1) =>
       /\ mResult.t = mPrev.t
       /\ mResult.id \notin Ids(mPrev) \cup Ids(mNext)
       /\ KeysOf(mResult) = KeysOf(mNext)
       /\ \A u \in KeysOf(mPrev) \ Differing(mPrev, mNext) :
            RefEq(EntryOf(mResult, u), EntryOf(mPrev, u))

\* a merge in which one scalar key changed beside a nested object that next
\* holds as a different, structurally equal object: the result is new and
\* keeps previous's nested object
C9_Witness ==
  /\ MergeCase
  /\ mPrev.t = "obj"
  /\ SameShape(mPrev, mNext)
  /\ Differing(mPrev, mNext) = {Ka}
  /\ ObjGet(mPrev, Kb).t = "obj"
  /\ ObjGet(mPrev, Kb).k # <<>>
  /\ ObjGet(mPrev, Kb).id # ObjGet(mNext, Kb).id
  /\ mResult.id = <<3>>
  /\ ObjGet(mResult, Kb).id = ObjGet(mPrev, Kb).id

(***************************************************************************)
(* C3: a setState whose updater returns the state itself does nothing.     *)
(***************************************************************************)
\* C3: in every state of the Store, batching or not, a setState whose updater
\* returns the very object that is the state invokes no listener, does not
\* run the hook onUpdate, queues nothing and leaves the state as it is.
C3_NoOpSetState ==
  [][(sCall'.n # sCall.n /\ sCall'.fn = "setState" /\ sCall'.arg = store.state.id) =>
       (store' = store /\ sLog' = sLog /\ sStack' = sStack)]_vars

\* setState was just called with the state itself, inside a batch, with a
\* task in the queue and a listener subscribed
C3_Witness ==
  /\ sCall.fn = "setState"
  /\ sCall.arg = sCall.on
  /\ store.state.id = sCall.arg
  /\ store.batching
  /\ store.queue # <<>>
  /\ store.listeners # <<>>
  /\ sLog[Len(sLog)].k = "update"

(***************************************************************************)
(* C4: batch atomicity.                                                    *)
(***************************************************************************)
\* the calls of batch made outside every other call, and the return of the cb
\* of such a call (0 while the cb is running)
OuterBatches == {b \in 1..Len(sLog) : sLog[b].k = "batch" /\ sLog[b].d = 0}
Closes(b) == {c \in (b + 1)..Len(sLog) : sLog[c].k = "close" /\ sLog[c].d = 1}
CloseOf(b) == IF Closes(b) = {} THEN 0 ELSE CHOOSE c \in Closes(b) : \A x \in Closes(b) : c <= x
\* what the log holds of the cb of the batch at b
InsideOf(b) == IF CloseOf(b) = 0 THEN (b + 1)..Len(sLog) ELSE (b + 1)..(CloseOf(b) - 1)
\* no listener has thrown
NoThrow == \A i \in 1..Len(sLog) : sLog[i].k # "throw"
\* the cb made setState calls only, and no listener has thrown
OnlySetState(b) == NoThrow /\ \A i \in InsideOf(b) : sLog[i].k # "batch"
\* the state changes of the batch at b, in order
ChangesOf(b) ==
  SelectSeq([i \in 1..(CloseOf(b) - b - 1) |-> sLog[b + i]], LAMBDA e : e.k = "update")
\* the states the batch at b went through that are neither the state before
\* it nor the state after it
IntermediateOf(b) ==
  {sLog[i].next : i \in {x \in InsideOf(b) : sLog[x].k = "update"}}
    \ {sLog[b].next, sLog[CloseOf(b)].next}
\* the invocations of listeners by the flush of the batch at b: those made
\* before the next call from outside
FlushOf(b) ==
  {n \in (CloseOf(b) + 1)..Len(sLog) :
     /\ sLog[n].k = "notify"
     /\ sLog[n].d = 1
     /\ \A x \in (CloseOf(b) + 1)..n : sLog[x].d > 0}
NotifiedOf(b, l) ==
  SelectSeq([i \in 1..(Len(sLog) - CloseOf(b)) |->
               [e |-> sLog[CloseOf(b) + i], at |-> CloseOf(b) + i]],
            LAMBDA x : x.at \in FlushOf(b) /\ x.e.l = l)
IsPrefix(p, q) == Len(p) <= Len(q) /\ \A i \in 1..Len(p) : p[i] = q[i]

\* C4: no listener is invoked before the cb of a batch of setState calls has
\* returned; no invocation that the batch causes gets an intermediate state,
\* as next or as previous; the invocations come in the order of the changes.
C4_BatchAtomicity ==
  \A b \in OuterBatches :
    OnlySetState(b) =>
      /\ \A i \in InsideOf(b) : sLog[i].k # "notify"
      /\ CloseOf(b) # 0 =>
           /\ \A n \in FlushOf(b) :
                /\ sLog[n].next \notin IntermediateOf(b)
                /\ sLog[n].previous \notin IntermediateOf(b)
           /\ \A l \in Listeners :
                IsPrefix([i \in 1..Len(NotifiedOf(b, l)) |-> NotifiedOf(b, l)[i].e.previous],
                         [i \in 1..Len(ChangesOf(b)) |-> ChangesOf(b)[i].previous])

(***************************************************************************)
(* History Queue: bursts of calls.                                         *)
(***************************************************************************)
HostOps == {"pushState", "replaceState", "go", "back", "forward"}
HistCalls == {"push", "replace", "go", "back", "forward"}
\* the first event after event i that the code using the History Queue, or
\* the host, made at the top level; Len(hLog) + 1 when there is none
NextTop(i) ==
  LET later == {j \in (i + 1)..Len(hLog) : hLog[j].d = 0 /\ hLog[j].k # "throw"}
  IN  IF later = {} THEN Len(hLog) + 1
      ELSE CHOOSE j \in later : \A x \in later : j <= x
\* the listeners registered when event i was made
RegisteredAt(i) ==
  {l \in HListeners :
     \E a \in 1..(i - 1) :
        /\ hLog[a].k = "listen" /\ hLog[a].l = l
        /\ \A b \in (a + 1)..(i - 1) : ~(hLog[b].k = "unlisten" /\ hLog[b].l = l)}
\* push at event i and replace at event r are one burst that has returned,
\* with a listener registered, no listener or task making calls of its own,
\* and no host operation throwing
Burst(i, r) ==
  /\ hLog[i].k = "push" /\ hLog[i].d = 0
  /\ r = NextTop(i) /\ r <= Len(hLog)
  /\ hLog[r].k = "replace"
  /\ NextTop(r) <= Len(hLog) \/ hStack = <<>>
  /\ RegisteredAt(i) # {}
  /\ \A x \in i..(NextTop(r) - 1) : hLog[x].k \in HistCalls => hLog[x].d = 0
  /\ \A x \in i..(NextTop(r) - 1) : hLog[x].k # "throw"
\* the events of a kind among the events a..b, in order
EventsIn(a, b, kinds) ==
  SelectSeq([x \in 1..(b - a + 1) |-> hLog[a + x - 1]], LAMBDA ev : ev.k \in kinds)

\* C1: when push(A) and replace(B) are called back-to-back on a History
\* Queue with a registered listener, the host receives pushState(A) and then
\* replaceState(B), and each registered listener is invoked exactly once in
\* total, after both host calls.
C1_BurstCollapsing ==
  \A i \in 1..Len(hLog) : \A r \in 1..Len(hLog) :
    Burst(i, r) =>
      LET e == NextTop(r) - 1
          ops == EventsIn(i, e, HostOps)
      IN  /\ Len(ops) = 2
          /\ ops[1].k = "pushState" /\ ops[1].path = hLog[i].path
          /\ ops[2].k = "replaceState" /\ ops[2].path = hLog[r].path
          /\ \A l \in RegisteredAt(i) :
               /\ Cardinality({x \in i..e : hLog[x].k = "notify" /\ hLog[x].l = l}) = 1
               /\ \A x \in i..e : \A y \in i..e :
                    hLog[x].k = "notify" /\ hLog[y].k \in HostOps => y < x

\* the host half of C1, which the code keeps: the host receives
\* pushState(A) and then replaceState(B), and nothing else
C1_HostOrder ==
  \A i \in 1..Len(hLog) : \A r \in 1..Len(hLog) :
    Burst(i, r) =>
      LET ops == EventsIn(i, NextTop(r) - 1, HostOps)
      IN  /\ Len(ops) = 2
          /\ ops[1].k = "pushState" /\ ops[1].path = hLog[i].path
          /\ ops[2].k = "replaceState" /\ ops[2].path = hLog[r].path
C1_BurstReturned == \E i \in 1..Len(hLog) : \E r \in 1..Len(hLog) : Burst(i, r)

(***************************************************************************)
(* Router: what subscribers are given, and what the host is given.         *)
(***************************************************************************)
\* the events that the last call of the Router logged
LastEvents == {i \in 1..Len(rLog) : i > rCall.from}
PrevSearch == rCall.before.currentLocation.search
Committed == router.state.currentLocation

\* C2: every state that a subscriber of the Store is given as a result of
\* load has currentLocation === latestLocation; no subscriber sees the new
\* latestLocation with the older currentLocation.
C2_ConsistentPair ==
  \A i \in 1..Len(rLog) :
    rLog[i].k = "notify" =>
      LocEq(rLog[i].next.currentLocation, rLog[i].next.latestLocation)

\* a subscriber was given a state by a load with a next location
C2_LoadNotified ==
  \E i \in 1..Len(rLog) :
    rLog[i].k = "notify" /\ ~LocEq(rLog[i].next.latestLocation, rLog[i].prev.latestLocation)

\* the updater of the last navigate changes one key of the search
ChangesKey ==
  /\ rCall.fn = "navigate"
  /\ rCall.intent.search.k = "updater"
  /\ ~DeepEq(ObjGet(PrevSearch, rCall.intent.search.key), rCall.intent.search.v)
NavigateCommit ==
  /\ LocEq(Committed, router.state.latestLocation)
  /\ DeepEq(ObjGet(Committed.search, rCall.intent.search.key), rCall.intent.search.v)
  /\ ~RefEq(Committed.search, PrevSearch)
  /\ \A u \in DOMAIN PrevSearch.f \ {rCall.intent.search.key} :
       PrevSearch.f[u].t = "obj" => RefEq(ObjGet(Committed.search, u), PrevSearch.f[u])

\* C5: when navigate is called with a search updater that changes one key,
\* then on return currentLocation is committed (equal to latestLocation), its
\* search has the new value for the key and is a new object, and every
\* untouched sibling key with a nested-object value keeps its reference.
C5_NavigateCommit == ChangesKey => NavigateCommit

\* C5 for the new values that the search codec gives back as they were:
\* numbers and nested objects
C5_NavigateCommitStable ==
  ChangesKey /\ rCall.intent.search.v.t # "str" => NavigateCommit

\* C6: after construction on a host with an empty query string and with
\* default values D, currentLocation.search equals D, currentLocation.searchStr
\* is the encoding of D, and the query string of the host is that encoding.
C6_ConstructDefaults ==
  rCall.fn = "construct" /\ rCall.query = <<>> =>
    /\ DeepEq(Committed.search, router.defaultValues)
    /\ Committed.searchStr = stringifySearch(router.defaultValues)
    /\ window.search = stringifySearch(router.defaultValues)

\* C6 for the default values that the search codec gives back as they were
C6_ConstructDefaultsStable ==
  /\ rCall.fn = "construct" /\ rCall.query = <<>>
  /\ \A u \in DOMAIN router.defaultValues.f : router.defaultValues.f[u].t # "str"
  => /\ DeepEq(Committed.search, router.defaultValues)
     /\ Committed.searchStr = stringifySearch(router.defaultValues)
     /\ window.search = stringifySearch(router.defaultValues)

\* C7: the state that each navigate passes to replaceState of the host
\* carries the id that this navigate generated, so the ids of two navigate
\* calls differ; an id of the carried-forward state never replaces it.
C7_FreshId ==
  \A i \in 1..Len(rLog) :
    rLog[i].k = "replaceState" =>
      /\ rLog[i].hs.id = rLog[i].gen
      /\ \A j \in 1..Len(rLog) :
           rLog[j].k = "replaceState" /\ j # i => rLog[j].hs.id # rLog[i].hs.id

\* the candidate of the last navigate is the current location in pathname,
\* search and searchStr, and the Store has a subscriber
NoOpNavigate ==
  /\ rCall.fn = "navigate"
  /\ rCall.before.currentLocation.pathname = rCall.candidate.pathname
  /\ rCall.before.currentLocation.searchStr = rCall.candidate.searchStr
  /\ RefEq(rCall.before.currentLocation.search, rCall.candidate.search)
  /\ router.store.listeners # <<>>

\* C8: when navigate computes a candidate identical to the current location
\* in pathname, search and searchStr, the replace is still issued to the
\* host, but no subscriber of the Store is invoked as a result.
C8_NoOpNavigate ==
  NoOpNavigate =>
    /\ \E i \in LastEvents : rLog[i].k = "replaceState"
    /\ \A i \in LastEvents : rLog[i].k # "notify"

\* the half of C8 that the code keeps: the replace is issued to the host
C8_ReplaceIssued == NoOpNavigate => \E i \in LastEvents : rLog[i].k = "replaceState"

(***************************************************************************)
(* History Queue: the listener of the host.                                *)
(***************************************************************************)
\* the attach and detach calls made on the host, in order
HostListenerCalls == SelectSeq(hLog, LAMBDA ev : ev.k \in {"attach", "detach"})

\* C11: after any sequence of listen calls and calls of the functions they
\* returned, the host listener is attached exactly when a listener is
\* registered, the host is attached to only when the first listener
\* registers, and its detach function is called only when the last one
\* leaves, never while it is detached.
C11_LazyAttach ==
  /\ hist.attached <=> hist.listeners # <<>>
  /\ \A i \in 1..Len(HostListenerCalls) :
       HostListenerCalls[i].k = (IF i % 2 = 1 THEN "attach" ELSE "detach")

\* the parts of C11 that the code keeps: attached exactly when a listener is
\* registered, and never attached to twice in a row
C11_AttachedWhenRegistered ==
  /\ hist.attached <=> hist.listeners # <<>>
  /\ \A i \in 1..(Len(HostListenerCalls) - 1) :
       ~(HostListenerCalls[i].k = "attach" /\ HostListenerCalls[i + 1].k = "attach")

(***************************************************************************)
(* Store: nested batch and re-entrant notification.                        *)
(***************************************************************************)
\* the batch calls that have not returned when event x is logged
OpenBatches(x) ==
  Cardinality({b \in 1..(x - 1) : sLog[b].k = "batch"})
    - Cardinality({c \in 1..(x - 1) : sLog[c].k = "close"})

\* C12: when batch is called inside another batch, no listener is invoked
\* until the outermost batch closes: the return of the inner batch does not
\* flush, and a setState made in the outer batch after it does not notify.
C12_NestedBatch ==
  \A x \in 1..Len(sLog) : sLog[x].k = "notify" => OpenBatches(x) = 0

\* C12 without nesting: a listener is never invoked inside a batch that has
\* no batch inside it
C12_FlatBatch ==
  \A x \in 1..Len(sLog) :
    sLog[x].k = "notify" /\ (\A b \in 1..x : sLog[b].k = "batch" => OpenBatches(b) = 0)
      => OpenBatches(x) = 0

\* the state changes so far whose previous state is p, and the invocations
\* of listener l so far that were given p as the previous state
ChangesFrom(p) == {x \in 1..Len(sLog) : sLog[x].k = "update" /\ sLog[x].previous = p}
DeliveredFrom(l, p) ==
  {x \in 1..Len(sLog) : sLog[x].k = "notify" /\ sLog[x].l = l /\ sLog[x].previous = p}
\* every call has returned, no listener has thrown, and a listener has
\* called setState with a new state while the Store was flushing and not
\* batching
ReentrantSetState ==
  /\ sStack = <<>>
  /\ NoThrow
  /\ \E x \in 1..Len(sLog) : sLog[x].k = "update" /\ sLog[x].d >= 2
  /\ \A x \in 1..Len(sLog) : sLog[x].k # "batch"

\* C14: when a listener calls setState with a new state while the Store is
\* flushing its notification queue, every state change is delivered to each
\* subscribed listener exactly once: no queued notification task is run
\* twice and none is lost.
C14_ReentrantNotify ==
  ReentrantSetState =>
    \A l \in Range(store.listeners) : \A p \in Refs :
      Cardinality(DeliveredFrom(l, p)) = Cardinality(ChangesFrom(p))

\* the part of C14 that the code keeps: no state change is lost
C14_NoneLost ==
  ReentrantSetState =>
    \A l \in Range(store.listeners) : \A p \in Refs :
      Cardinality(DeliveredFrom(l, p)) >= Cardinality(ChangesFrom(p))

\* no listener has made a call and no batch is inside another: every
\* setState was made at the top level or by the cb of a top-level batch
PlainCalls ==
  \A x \in 1..Len(sLog) :
    /\ sLog[x].k = "batch" => sLog[x].d = 0
    /\ sLog[x].k = "update" => sLog[x].d <= 1
\* the state changes after event t whose previous state is p, and the
\* invocations of listener l after event t that were given p
ChangesAfter(t, p) == {x \in ChangesFrom(p) : x > t}
DeliveredAfter(t, l, p) == {x \in DeliveredFrom(l, p) : x > t}

\* C16: if a listener throws while the Store flushes its notification queue,
\* the error propagates to the caller of setState or batch, and the
\* notification tasks that were queued for that flush are aborted: no later
\* flush runs any of them, so after the error a listener is invoked only for
\* the state changes made after it.
C16_ListenerThrow ==
  PlainCalls =>
    \A t \in 1..Len(sLog) :
      sLog[t].k = "throw" =>
        \A l \in Listeners : \A p \in Refs :
          Cardinality(DeliveredAfter(t, l, p)) <= Cardinality(ChangesAfter(t, p))

\* the part of C16 that the code keeps: the error leaves the listener, the
\* flush and the call that flushed, and the rest of that flush is not run
C16_Propagates ==
  [][(Len(sLog') = Len(sLog) + 1 /\ sLog'[Len(sLog')].k = "throw") =>
       /\ Top.k = "listener"
       /\ sStack' = SubSeq(sStack, 1, Len(sStack) - 2)
       /\ sStack' # <<>> => sStack'[Len(sStack')].k \in {"batch", "listener"}
       /\ sLog'[Len(sLog')].d = Len(sStack')]_vars

(***************************************************************************)
(* History Queue: a task that makes a mutating call.                       *)
(***************************************************************************)
\* a mutating call is logged where the code using the History Queue runs (an
\* even depth), the host operation of its task inside the drain (an odd one)
IsCall(ev) == ev.k \in HistCalls /\ ev.d % 2 = 0
IsHostOp(ev) == ev.k \in HostOps /\ ev.d % 2 = 1
\* the mutating call at event i was made at the top level and has returned
\* without an error, a listener is registered, a task of its drain made a
\* mutating call, and no listener made one
ReentrantDrain(i) ==
  /\ IsCall(hLog[i]) /\ hLog[i].d = 0
  /\ NextTop(i) <= Len(hLog) \/ hStack = <<>>
  /\ RegisteredAt(i) # {}
  /\ \E x \in (i + 1)..(NextTop(i) - 1) : IsCall(hLog[x])
  /\ \A x \in i..(NextTop(i) - 1) : hLog[x].k # "throw"
  /\ \A x \in i..(NextTop(i) - 1) : \A y \in i..(NextTop(i) - 1) :
       IsCall(hLog[x]) /\ hLog[y].k = "notify" => x < y
\* a listener is running while a task has not returned
ListenerInsideTask ==
  \E a \in 1..Len(hStack) : \E b \in 1..Len(hStack) :
    a < b /\ hStack[a].k = "task" /\ hStack[b].k = "listener"

\* C13: if a task that is running during a drain issues another mutating
\* call, the new task is run within the same drain and the registered
\* listeners are notified exactly once, only after both tasks have completed;
\* no notification fires while the outer task is still running.
C13_ReentrantDrain ==
  /\ ~ListenerInsideTask
  /\ \A i \in 1..Len(hLog) :
       ReentrantDrain(i) =>
         LET e == NextTop(i) - 1
         IN  /\ Cardinality({x \in i..e : IsHostOp(hLog[x])})
                  = Cardinality({x \in i..e : IsCall(hLog[x])})
             /\ \A l \in RegisteredAt(i) :
                  /\ Cardinality({x \in i..e : hLog[x].k = "notify" /\ hLog[x].l = l}) = 1
                  /\ \A x \in i..e : \A y \in i..e :
                       hLog[x].k = "notify" /\ IsHostOp(hLog[y]) => y < x

\* the part of C13 that the code keeps: the task that a task queued is run
\* before the call of the outer task returns, and before any notification
C13_TaskRun ==
  \A i \in 1..Len(hLog) :
    ReentrantDrain(i) =>
      LET e == NextTop(i) - 1
      IN  /\ Cardinality({x \in i..e : IsHostOp(hLog[x])})
                  = Cardinality({x \in i..e : IsCall(hLog[x])})
          /\ \A x \in i..e : \A y \in i..e :
               hLog[x].k = "notify" /\ IsHostOp(hLog[y]) => y < x
C13_ReentrantReturned == \E i \in 1..Len(hLog) : ReentrantDrain(i)

(***************************************************************************)
(* History Queue: a task that throws.                                      *)
(***************************************************************************)
\* the host operation that the task of a mutating call runs
OpOf(call) == IF call = "push" THEN "pushState"
              ELSE IF call = "replace" THEN "replaceState" ELSE call
\* this step logs an error that leaves a mutating call
ThrowStep == Len(hLog') = Len(hLog) + 1 /\ hLog'[Len(hLog')].k = "throw"
\* every host operation so far was run for the mutating call made just
\* before it: a drain runs the task of its own call and no other
OwnTaskOnly ==
  \A x \in 1..Len(hLog) :
    IsHostOp(hLog[x]) =>
      /\ x > 1
      /\ IsCall(hLog[x - 1])
      /\ hLog[x - 1].d = hLog[x].d - 1
      /\ OpOf(hLog[x - 1].k) = hLog[x].k
      /\ hLog[x - 1].path = hLog[x].path

\* C15: if a queued task throws while being drained (a task that another
\* task queued included), the error reaches the caller of the mutating
\* operation, no further task of that drain is run, and the queue is empty
\* afterwards, so that the next mutating call runs only its own task.
C15_QueueFailure ==
  /\ [][ThrowStep =>
          /\ Len(hStack') < Len(hStack)
          /\ hStack' = SubSeq(hStack, 1, Len(hStack'))
          /\ hLog'[Len(hLog')].d = Len(hStack')
          /\ hStack' # <<>> => hStack'[Len(hStack')].k \in {"task", "listener"}
          /\ hist'.queue = <<>>
          /\ hHost' = hHost]_vars
  /\ [](HUserRuns => hist.queue = <<>>)
  /\ []OwnTaskOnly

\* the task that a task queued threw, the error left both mutating calls, and
\* the next mutating call has run its task and returned
C15_Witness ==
  /\ hStack = <<>>
  /\ \E t \in 1..Len(hLog) : \E c \in 1..Len(hLog) :
       /\ t + 1 < c /\ c < Len(hLog)
       /\ hLog[t].k = "throw" /\ hLog[t].d = 2
       /\ hLog[t + 1].k = "throw" /\ hLog[t + 1].d = 0
       /\ IsCall(hLog[c]) /\ hLog[c].d = 0
       /\ IsHostOp(hLog[c + 1])

(***************************************************************************)
(* Router: where currentLocation comes from.                               *)
(***************************************************************************)
\* the currentLocation of the state next is the currentLocation or the
\* latestLocation of the state prev that it replaced, or its own
\* latestLocation
FromLatest(next, prev) ==
  \/ LocEq(next.currentLocation, next.latestLocation)
  \/ LocEq(next.currentLocation, prev.latestLocation)
  \/ LocEq(next.currentLocation, prev.currentLocation)

\* C17: the currentLocation of the Store is a value that is or was its
\* latestLocation, in the states that subscribers are given during a call as
\* in the state a call leaves; and whenever construction, load, navigate or a
\* host change notification has returned, currentLocation is the same
\* reference as latestLocation.
C17_Provenance ==
  /\ \A i \in 1..Len(rLog) :
       rLog[i].k = "notify" =>
         /\ FromLatest(rLog[i].next, rLog[i].prev)
         /\ FromLatest(rLog[i].prev, rLog[i].prev)
              \/ \E j \in 1..(i - 1) :
                   rLog[j].k = "notify" /\ rLog[j].next.id = rLog[i].prev.id
  /\ FromLatest(router.store.state, rCall.before)
  /\ router.state = router.store.state
  /\ rCall.fn \in {"construct", "load", "navigate", "popstate"} =>
       /\ router.store.state.currentLocation.t = "loc"
       /\ LocEq(router.store.state.currentLocation, router.store.state.latestLocation)

\* a navigate or a host change has returned during which a subscriber was
\* given a state whose currentLocation was no longer its latestLocation
C17_Witness ==
  /\ rCall.fn \in {"navigate", "popstate"}
  /\ \E i \in LastEvents :
       /\ rLog[i].k = "notify"
       /\ ~LocEq(rLog[i].next.currentLocation, rLog[i].next.latestLocation)
       /\ LocEq(rLog[i].next.latestLocation, router.store.state.currentLocation)

(***************************************************************************)
(* Router: a host change notification without a change.                    *)
(***************************************************************************)
\* locations a and b agree in everything but the identity of the location
\* object, their search being one and the same object
SameCommitted(a, b) ==
  /\ a.t = "loc" /\ b.t = "loc"
  /\ a.pathname = b.pathname
  /\ a.searchStr = b.searchStr
  /\ a.href = b.href
  /\ a.state = b.state
  /\ RefEq(a.search, b.search)

\* C18: when the host fires a change notification although its location has
\* not changed since the last load, the load that results leaves the
\* committed location unchanged in pathname, searchStr, href and state, and
\* the search of latestLocation and of currentLocation is the same object as
\* before.
C18_RedundantLoad ==
  rCall.fn = "echo" =>
    /\ SameCommitted(router.store.state.currentLocation, rCall.before.currentLocation)
    /\ SameCommitted(router.store.state.latestLocation, rCall.before.latestLocation)
    /\ router.state = router.store.state

\* a redundant notification has been handled on a search that holds a nested
\* object, with a subscriber that was notified of the new state object
C18_Witness ==
  /\ rCall.fn = "echo"
  /\ \E u \in DOMAIN Committed.search.f : Committed.search.f[u].t = "obj"
  /\ \E i \in LastEvents : rLog[i].k = "notify"
  /\ ~LocEq(Committed, rCall.before.currentLocation)

(***************************************************************************)
(* Router: the normalizing navigate of construction.                       *)
(***************************************************************************)
\* the Router has just been constructed on a query string that is already
\* the string of its search with the defaults applied
AlreadyNormal ==
  /\ rCall.fn = "construct"
  /\ rCall.candidate.searchStr = rCall.query

\* C19: construction issues the normalizing navigate, a replaceState on the
\* host, only if the href derived from the filtered search differs from the
\* href of the initial location; when the initial query string of the host
\* already encodes the search with defaults applied, construction makes no
\* replaceState call.
C19_ConditionalNormalize ==
  /\ rCall.fn = "construct" /\ (\E i \in LastEvents : rLog[i].k = "replaceState") =>
       Pathname \o rCall.query # rCall.candidate.href
  /\ AlreadyNormal => \A i \in LastEvents : rLog[i].k # "replaceState"

\* the half of C19 that the code keeps: the replaceState is made only when
\* the two hrefs differ as strings
C19_OnlyIfDiffers ==
  rCall.fn = "construct" /\ (\E i \in LastEvents : rLog[i].k = "replaceState") =>
    Pathname \o rCall.query # rCall.candidate.href

(***************************************************************************)
(* The merge keeps the new value.                                          *)
(***************************************************************************)
\* C20: for all previous and next built from arrays, plain objects and
\* scalars, keys whose value is undefined included, d(previous, next) is
\* deep-equal to next: it has exactly the keys and the values of next, and a
\* key of previous that next does not have is never in the result.
C20_MergeKeepsNext ==
  mPhase = "merged" =>
    /\ DeepEq(mResult, mNext)
    /\ mResult.t = "obj" /\ mNext.t = "obj" => DOMAIN mResult.f = DOMAIN mNext.f

\* C20 for a next that holds no undefined, which the code keeps
C20_DefinedNext == mPhase = "merged" /\ ~HasUndef(mNext) => DeepEq(mResult, mNext)

====
